---- MODULE Spec2Model ----
(***************************************************************************)
(* Tiled, asynchronously computed Mandelbrot texture (xorza/fractal).      *)
(*                                                                         *)
(* The model follows src/src/mandel_texture.rs: the tile grid built by     *)
(* MandelTexture::new, the update pass (scale comparison, per-tile         *)
(* invalidation, visibility test and dispatch), the spawned worker task    *)
(* (token load, cancellation polls of the scan, unconditional write-back   *)
(* under the tile lock), the render pass (upload of WaitForUpload tiles)   *)
(* and resize_window.                                                      *)
(*                                                                         *)
(* f64 values are modelled as binary floating point numbers with a         *)
(* significand of Precision bits and round-to-nearest-even, stored as an   *)
(* integer number of units (One units make 1.0).  Every arithmetic         *)
(* operation rounds its exact result, as the hardware does.                *)
(***************************************************************************)
EXTENDS Integers, Sequences, FiniteSets, TLC

\* ------------------------------------------------------------------ bounds
MaxGridRes  == 6   \* largest texture side of the construction study
MaxGridTile == 3   \* largest tile side of the construction study
TileCount   == 2   \* tiles per side (tile_count); the program has 16
Precision   == 7   \* significand bits of the modelled f64 (the program has 53)
ScanChecks  == 1   \* cancellation polls one scan makes (the program: 512)
Workers     == 1   \* worker threads of the runtime
MaxCalls    == 3   \* calls of update, render and resize_window explored
MaxEsc      == 300 \* largest escape time of a pixel's orbit that is tried
MaxNewSpan  == 64  \* texture sides tried: the minimum - 2 * span .. + span
MaxScanRows == 2   \* rows of the tile of the scan study (the program: 128)
MaxBumps    == 1   \* token increments during one scan of the scan study
MaxTokenSpan == 8  \* token values tried: this far from either end of the u32
MaxTokenAdds == 8  \* fetch_add calls of the token study
MaxRectPos  == 20  \* largest coordinate of a global rectangle's corner
MaxRectZoom == 4   \* smallest side of a global rectangle: 1 / 2^MaxRectZoom
MaxLockPasses == 2 \* update and render passes of the lock study
MaxLockTasks == 3  \* tasks spawned in the lock study
MaxLiveTasks == 4  \* tasks alive at once in the convergence study
MaxAppTiles == 3   \* tiles of the application loop study (the program: 256)
MaxAppSpawns == 4  \* tasks spawned in the application loop study
MaxCoverZoom == 4  \* largest frame of the cover study: 2^MaxCoverZoom / One per pixel
MaxCoverPos == 100 \* largest coordinate of a frame's corner in the cover study

\* ------------------------------------------------------- program constants
TILE_SIZE == 128

\* assert!(tex_size >= 1024)
MIN_TEX_SIZE == 1024

\* const MAX_IT: u32 = 256
MAX_IT == 256

\* mandelbrot(): the token is compared when x % 32 == 0 (line 309)
CheckEvery == 32

\* tex_size: the side of the square texture, a multiple of TILE_SIZE
TexSize == TileCount * TILE_SIZE

NumTiles == TileCount * TileCount

TileIds == 0 .. (NumTiles - 1)

\* ------------------------------------------------------------- f64 numbers
One == 2 ^ (Precision + 1)

\* f64::EPSILON: the gap between 1.0 and the next larger number
EPSILON == One \div (2 ^ (Precision - 1))

Abs(n) == IF n < 0 THEN 0 - n ELSE n

Sign(n) == IF n < 0 THEN 0 - 1 ELSE 1

\* spacing of the floating point numbers around the magnitude m (in units)
RECURSIVE Ulp(_)
Ulp(m) == IF m < 2 ^ Precision THEN 1 ELSE 2 * Ulp(m \div 2)

\* the exact quotient num/den (den > 0, num >= 0) rounded to the nearest
\* floating point number, ties to the even significand
RoundPos(num, den) ==
    LET u == Ulp(num \div den)
        d == den * u
        k == num \div d
        r == num % d
        up == (2 * r > d) \/ (2 * r = d /\ k % 2 = 1)
    IN  IF up THEN (k + 1) * u ELSE k * u

RoundRat(num, den) ==
    Sign(num) * Sign(den) * RoundPos(Abs(num), Abs(den))

FAdd(x, y) == RoundRat(x + y, 1)

FSub(x, y) == RoundRat(x - y, 1)

FMul(x, y) == RoundRat(x * y, One)

\* x / y; a zero divisor is kept out of the inputs (frame sizes are positive)
FDiv(x, y) == RoundRat(x * One, y)

\* u32 as f64
FromU32(n) == RoundRat(n * One, 1)

\* --------------------------------------------------------------- geometry
Vec2(x, y) == [x |-> x, y |-> y]

Rect(pos, size) == [pos |-> pos, size |-> size]

\* RectF64::zeroed()
ZeroRect == Rect(Vec2(0, 0), Vec2(0, 0))

\* Vec2f64::from(Vec2u32)
VecFromU32(v) == Vec2(FromU32(v.x), FromU32(v.y))

\* RectF64::pos_size
PosSize(pos, size) == Rect(pos, size)

\* RectF64::center: pos + size / 2
Center(r) ==
    Vec2(FAdd(r.pos.x, FDiv(r.size.x, 2 * One)),
         FAdd(r.pos.y, FDiv(r.size.y, 2 * One)))

\* RectF64::center_size: the rectangle of the given size around the centre
CenterSize(c, size) ==
    Rect(Vec2(FSub(c.x, FDiv(size.x, 2 * One)),
              FSub(c.y, FDiv(size.y, 2 * One))),
         size)

\* RectF64::intersects: the two rectangles overlap in both axes
Intersects(r, o) ==
    /\ r.pos.x < FAdd(o.pos.x, o.size.x)
    /\ o.pos.x < FAdd(r.pos.x, r.size.x)
    /\ r.pos.y < FAdd(o.pos.y, o.size.y)
    /\ o.pos.y < FAdd(r.pos.y, r.size.y)

\* ----------------------------------------------------------- construction
\* the two nested loops of MandelTexture::new: i outer, j inner, each tile
\* pushed with index = tiles.len() and origin (i * tile, j * tile)
\* faulty variant: the row index is used for both coordinates
TileRectDiagonal(i, j, tile) == Rect(Vec2(i * tile, i * tile), Vec2(tile, tile))

\* lines 84-87: the texture rectangle of the tile at loop indices i, j
TileRect(i, j, tile) == Rect(Vec2(i * tile, j * tile), Vec2(tile, tile))

\* for j in 0..tile_count (lines 82-94)
RECURSIVE InnerLoop(_, _, _, _, _)
InnerLoop(i, j, count, tile, tiles) ==
    IF j = count THEN tiles
    ELSE InnerLoop(i, j + 1, count, tile,
                   Append(tiles,
                          [index    |-> Len(tiles),
                           tex_rect |-> TileRect(i, j, tile)]))

\* for i in 0..tile_count (lines 81-95)
RECURSIVE TileLoop(_, _, _, _)
TileLoop(i, count, tile, tiles) ==
    IF i = count THEN tiles
    ELSE TileLoop(i + 1, count, tile, InnerLoop(i, 0, count, tile, tiles))

\* MandelTexture::new for a texture of side res and tiles of side tile:
\* assert_eq!(tex_size % TILE_SIZE, 0), then the grid
NewTiles(res, tile) ==
    IF res % tile # 0
    THEN [ok |-> FALSE, tiles |-> <<>>]
    ELSE [ok |-> TRUE, tiles |-> TileLoop(0, res \div tile, tile, <<>>)]

\* self.tiles of the store under study; tile k is Tiles[k + 1]
Tiles == NewTiles(TexSize, TILE_SIZE).tiles

TileAt(k) == Tiles[k + 1]

\* Tile::fractal_rect: the part of the global rectangle a tile depicts
TileFractalRect(tile, tex_size, fractal_rect) ==
    LET abs_frame_size == VecFromU32(tex_size)
        abs_tile_pos   == VecFromU32(tile.tex_rect.pos)
        abs_tile_size  == VecFromU32(tile.tex_rect.size)
        tile_size == Vec2(FDiv(FMul(fractal_rect.size.x, abs_tile_size.x),
                               abs_frame_size.x),
                          FDiv(FMul(fractal_rect.size.y, abs_tile_size.y),
                               abs_frame_size.y))
        tile_pos  == Vec2(FAdd(fractal_rect.pos.x,
                               FDiv(FMul(fractal_rect.size.x, abs_tile_pos.x),
                                    abs_frame_size.x)),
                          FAdd(fractal_rect.pos.y,
                               FDiv(FMul(fractal_rect.size.y, abs_tile_pos.y),
                                    abs_frame_size.y)))
    IN  PosSize(tile_pos, tile_size)

\* ------------------------------------------------------------------ inputs
\* window sizes the store is constructed with or resized to
WindowSizes == {Vec2(80, 60), Vec2(256, 192)}

\* requested visible rectangles: a square of side 3 at the origin, the same
\* panned right by three quarters of its side, the same far away, and the
\* square of side 1 in its middle (a zoom), and a square of side 1/8 at 18,
\* narrower than the spacing of the floats there (a zoom past their precision)
Frames ==
    { Rect(Vec2(0, 0), Vec2(3 * One, 3 * One)),
      Rect(Vec2((9 * One) \div 4, 0), Vec2(3 * One, 3 * One)),
      Rect(Vec2(18 * One, 0), Vec2(3 * One, 3 * One)),
      Rect(Vec2(One, One), Vec2(One, One)),
      Rect(Vec2(18 * One, 0), Vec2(One \div 8, One \div 8)) }

\* ------------------------------------------------------------------- state
VARIABLES
    window_size,    \* MandelTexture.window_size
    fractal_rect,   \* MandelTexture.fractal_rect
    state,          \* state[k]: the TileState behind tile k's mutex
    cancel_token,   \* cancel_token[k]: tile k's AtomicU32
    tasks,          \* tasks spawned on the runtime and not yet finished
    spawned,        \* spawned[k]: number of tasks spawned for tile k so far
    ctl,            \* position of the control thread (update / render pass)
    writes,         \* write_texture calls of the current or latest render pass
    calls,          \* how many update, render and resize calls were made
    seen,           \* seen[k]: outcome of tile k's latest visibility test
    prev,           \* the latest update call: its arguments, what it started
                    \* from, and whether anything but scanning happened since
    lastRender,     \* when the latest render pass began
    callbacks,      \* tile_ready_callback invocations made by the latest step
    abort_enabled,  \* FALSE: the system in which JoinHandle::abort does nothing
    gridRes, gridTile, grid, probe,  \* construction study (SpecGrid, SpecNew)
    pixel,          \* one pixel's iteration loop (SpecPixel)
    scan,           \* one tile's scan against a token increment (SpecScan)
    counter,        \* one tile's AtomicU32 at its full width (SpecToken)
    mapping,        \* every tile's fractal_rect for one global rect (SpecMap)
    lk,             \* the tile mutexes and who holds or wants them (SpecLock)
    app             \* the application loop around the store (SpecApp)

vars == <<window_size, fractal_rect, state, cancel_token, tasks, spawned, ctl,
          writes, calls, seen, prev, lastRender, callbacks, abort_enabled,
          gridRes, gridTile, grid, probe, pixel, scan, counter, mapping, lk,
          app>>

gridVars == <<gridRes, gridTile, grid, probe>>

\* what no step of update, render, resize_window or a worker task changes
otherVars == <<abort_enabled, gridVars, pixel, scan, counter, mapping, lk,
          app>>

\* TileState
Idle == [kind |-> "Idle"]

Computing(task_handle) == [kind |-> "Computing", task_handle |-> task_handle]

WaitForUpload(buffer) == [kind |-> "WaitForUpload", buffer |-> buffer]

Ready == [kind |-> "Ready"]

IdleCtl == [pc |-> "idle"]

\* no update call to compare with; no render pass yet
NoPrev == [frame_rect |-> ZeroRect, window_size |-> Vec2(0, 0),
           idle_start |-> FALSE, quiet_start |-> FALSE, untouched |-> FALSE]

\* a worker write-back or another call ends "the same call twice in a row"
Touched == [prev EXCEPT !.untouched = FALSE]

NoRender == [updates |-> 0 - 1, quiet |-> FALSE]

NoGrid == [built |-> FALSE, ok |-> FALSE, tiles |-> <<>>]

NoProbe == [x |-> 0 - 1, y |-> 0 - 1, owners |-> {}]

NoPixel == [pc |-> "none", esc |-> 0, it |-> 0, byte |-> 0]

NoScan == [pc |-> "none", size |-> Vec2(0, 0), x |-> 0, y |-> 0,
           token |-> 0, cancel_token_value |-> 0, since |-> 0]

NoCounter == [pc |-> "none", value |-> [hi |-> 0, lo |-> 0],
              old |-> [hi |-> 0, lo |-> 0], adds |-> 0]

NoMapping == [pc |-> "none", global |-> ZeroRect, rects |-> <<>>]

NoLk == [ctl |-> [pc |-> "none", kind |-> "none", next |-> 0],
         holder |-> <<>>, tasks |-> {}, passes |-> 0, spawns |-> 0]

NoApp == [pc |-> "none", tile |-> <<>>, has_update_tiles |-> FALSE,
          redraw |-> FALSE, events |-> 0, next |-> 0, spawns |-> 0]

Init ==
    /\ window_size \in WindowSizes
    /\ fractal_rect = ZeroRect
    /\ state = [k \in TileIds |-> Idle]
    /\ cancel_token = [k \in TileIds |-> 0]
    /\ tasks = {}
    /\ spawned = [k \in TileIds |-> 0]
    /\ ctl = IdleCtl
    /\ writes = <<>>
    /\ calls = [update |-> 0, render |-> 0, resize |-> 0]
    /\ seen = [k \in TileIds |-> "never"]
    /\ prev = NoPrev
    /\ lastRender = NoRender
    /\ callbacks = <<>>
    /\ abort_enabled = TRUE
    /\ gridRes = 0 /\ gridTile = 0 /\ grid = NoGrid /\ probe = NoProbe
    /\ pixel = NoPixel /\ scan = NoScan /\ counter = NoCounter
    /\ mapping = NoMapping
    /\ lk = NoLk
    /\ app = NoApp

Called == calls.update + calls.render + calls.resize

\* ------------------------------------------------------------- update pass
\* lines 134-138: the texture-to-window ratio against the ratio of the
\* current global rectangle to the requested one
ScaleA == FDiv(FromU32(TexSize), FromU32(window_size.x))

ScaleB(frame_rect) == FDiv(fractal_rect.size.x, frame_rect.size.x)

ScaleChanged(frame_rect) == Abs(FSub(ScaleA, ScaleB(frame_rect))) > EPSILON

\* lines 139-146
NewFractalRect(frame_rect, scale_changed) ==
    IF scale_changed
    THEN LET s == FMul(ScaleA, frame_rect.size.x)
         IN  CenterSize(Center(frame_rect), Vec2(s, s))
    ELSE fractal_rect

UpdateBegin(frame_rect) ==
    /\ ctl.pc = "idle"
    /\ Called < MaxCalls
    /\ \E scale_changed \in {ScaleChanged(frame_rect)} :
          /\ fractal_rect' = NewFractalRect(frame_rect, scale_changed)
          /\ ctl' = [pc            |-> "update",
                     next          |-> 0,
                     frame_rect    |-> frame_rect,
                     scale_changed |-> scale_changed,
                     start_token   |-> cancel_token,
                     repeat        |-> /\ prev.untouched
                                       /\ prev.frame_rect = frame_rect
                                       /\ prev.window_size = window_size]
    /\ prev' = [frame_rect  |-> frame_rect,
                window_size |-> window_size,
                idle_start  |-> \A k \in TileIds : state[k] = Idle,
                quiet_start |-> tasks = {},
                untouched   |-> TRUE]
    /\ calls' = [calls EXCEPT !.update = @ + 1]
    /\ callbacks' = <<>>
    /\ UNCHANGED <<window_size, state, cancel_token, tasks, spawned, writes,
                   seen, lastRender, otherVars>>

\* JoinHandle::abort: a task that was not polled yet is dropped unpolled; a
\* task that is running has no await point left (the scan and the blocking
\* lock are one poll) and runs to its end
\* With abort doing nothing the call is only recorded on the task.
Abort(k, ts, task_handle) ==
    IF abort_enabled
    THEN ts \ {t \in ts : t.tile = k /\ t.id = task_handle /\ t.pc = "queued"}
    ELSE {IF t.tile = k /\ t.id = task_handle /\ t.pc = "queued"
          THEN [t EXCEPT !.aborted = TRUE] ELSE t : t \in ts}

\* the tile as the closure of lines 153-215 sees and leaves it
TileView(k) == [state |-> state[k], token |-> cancel_token[k], tasks |-> tasks]

\* faulty variant: the invalidation forgets to increment the token
InvalidateNoBump(k, c, scale_changed) ==
    IF scale_changed
    THEN [state |-> Idle,
          token |-> c.token,
          tasks |-> IF c.state.kind = "Computing"
                    THEN Abort(k, c.tasks, c.state.task_handle)
                    ELSE c.tasks]
    ELSE c

\* lines 157-163
Invalidate(k, c, scale_changed) ==
    IF scale_changed
    THEN [state |-> Idle,
          token |-> c.token + 1,
          tasks |-> IF c.state.kind = "Computing"
                    THEN Abort(k, c.tasks, c.state.task_handle)
                    ELSE c.tasks]
    ELSE c

\* faulty variant: a hidden tile that is Computing is left alone
CancelHiddenSkip(k, c) == c

\* lines 169-176: the tile is not visible
CancelHidden(k, c) ==
    IF c.state.kind = "Computing"
    THEN [state |-> Idle,
          token |-> c.token + 1,
          tasks |-> Abort(k, c.tasks, c.state.task_handle)]
    ELSE c

\* faulty variant: a visible tile is dispatched whatever its state
DispatchAlways(k, c) ==
    [state |-> Computing(spawned[k]),
     token |-> c.token,
     tasks |-> c.tasks \cup {[tile |-> k, id |-> spawned[k],
                              pc |-> "queued", cancel_token_value |-> 0,
                              polls |-> 0, gen |-> c.token,
                              seq |-> calls.update * NumTiles + k,
                              aborted |-> FALSE]}]

\* lines 178-214: dispatch for a visible tile; gen remembers the token value
\* at dispatch (the task itself loads the token only when it starts)
Dispatch(k, c) ==
    IF c.state.kind # "Idle"
    THEN c
    ELSE [state |-> Computing(spawned[k]),
          token |-> c.token,
          tasks |-> c.tasks \cup {[tile |-> k, id |-> spawned[k],
                                   pc |-> "queued", cancel_token_value |-> 0,
                                   polls |-> 0, gen |-> c.token,
                                   seq |-> calls.update * NumTiles + k,
                                   aborted |-> FALSE]}]

\* line 169
Visible(k, frame_rect) ==
    Intersects(frame_rect,
               TileFractalRect(TileAt(k), Vec2(TexSize, TexSize), fractal_rect))

\* faulty variant: the visibility test is ignored
UpdateTileAlways(k, visible) ==
    Dispatch(k, Invalidate(k, TileView(k), ctl.scale_changed))

\* faulty variant: only the tiles found visible are invalidated
UpdateTileVisibleOnly(k, visible) ==
    IF ~visible THEN CancelHidden(k, TileView(k))
    ELSE Dispatch(k, Invalidate(k, TileView(k), ctl.scale_changed))

UpdateTileResult(k, visible) ==
    LET c == Invalidate(k, TileView(k), ctl.scale_changed)
    IN  IF ~visible THEN CancelHidden(k, c) ELSE Dispatch(k, c)

PassStep == IF ctl.next + 1 = NumTiles THEN IdleCtl ELSE [ctl EXCEPT !.next = @ + 1]

\* one iteration of the for_each of update, under the tile's lock
UpdateTile ==
    /\ ctl.pc = "update"
    /\ \E visible \in {Visible(ctl.next, ctl.frame_rect)} :
       \E r \in {UpdateTileResult(ctl.next, visible)} :
          /\ state' = [state EXCEPT ![ctl.next] = r.state]
          /\ cancel_token' = [cancel_token EXCEPT ![ctl.next] = r.token]
          /\ tasks' = r.tasks
          /\ spawned' = [spawned EXCEPT ![ctl.next] =
                            IF r.tasks \subseteq tasks THEN @ ELSE @ + 1]
          /\ seen' = [seen EXCEPT ![ctl.next] =
                         IF visible THEN "visible" ELSE "hidden"]
    /\ ctl' = PassStep
    /\ callbacks' = <<>>
    /\ UNCHANGED <<window_size, fractal_rect, writes, calls, prev, lastRender,
                   otherVars>>

\* ------------------------------------------------------------- worker task
Running == {t \in tasks : t.pc # "queued"}

\* a worker thread takes the oldest task of the runtime's queue and polls it
\* for the first time; mandelbrot() begins with the load of the tile's token
\* (line 295)
TaskStart(t) ==
    /\ t.pc = "queued"
    /\ \A u \in tasks : u.pc = "queued" => t.seq <= u.seq
    /\ Cardinality(Running) < Workers
    /\ tasks' = (tasks \ {t}) \cup
                {[t EXCEPT !.pc = "scan",
                           !.cancel_token_value = cancel_token[t.tile]]}
    /\ callbacks' = <<>>
    /\ UNCHANGED <<window_size, fractal_rect, state, cancel_token, spawned, ctl,
                   writes, calls, seen, prev, lastRender, otherVars>>

\* one poll of the scan (lines 309-313): a changed token ends the scan with
\* Err; after the last poll the scan runs to Ok(buffer) unobserved
PollResult(t) ==
    IF cancel_token[t.tile] # t.cancel_token_value
    THEN [t EXCEPT !.pc = "cancelled"]
    ELSE IF t.polls + 1 >= ScanChecks
         THEN [t EXCEPT !.pc = "ok", !.polls = ScanChecks]
         ELSE [t EXCEPT !.polls = @ + 1]

TaskPoll(t) ==
    /\ t.pc = "scan"
    /\ tasks' = (tasks \ {t}) \cup {PollResult(t)}
    /\ callbacks' = <<>>
    /\ UNCHANGED <<window_size, fractal_rect, state, cancel_token, spawned, ctl,
                   writes, calls, seen, prev, lastRender, otherVars>>

\* the buffer a finished scan returns (line 299: one byte per pixel); gen is
\* the token value under which the computation was dispatched, clean says
\* that the token was not incremented between the load of line 295 and the
\* end of the scan
Buffer(t) ==
    [len |-> TileAt(t.tile).tex_rect.size.x * TileAt(t.tile).tex_rect.size.y,
     gen |-> t.gen,
     clean |-> cancel_token[t.tile] = t.cancel_token_value]

\* lines 201-209: the state the task writes once it holds the tile's lock
WriteBack(t, old) ==
    IF t.pc = "ok" THEN WaitForUpload(Buffer(t)) ELSE Idle

\* faulty variant: the callback is invoked in both branches
CallbackAlways(t) == <<t.tile>>

\* line 206: (callback)(tile_index), only in the Some(buf) branch and after
\* the assignment of line 203
Callback(t) == IF t.pc = "ok" THEN <<t.tile>> ELSE <<>>

TaskCommit(t) ==
    /\ t.pc \in {"ok", "cancelled"}
    /\ state' = [state EXCEPT ![t.tile] = WriteBack(t, @)]
    /\ tasks' = tasks \ {t}
    /\ prev' = Touched
    /\ ctl' = IF ctl.pc = "update" THEN [ctl EXCEPT !.repeat = FALSE] ELSE ctl
    /\ callbacks' = Callback(t)
    /\ UNCHANGED <<window_size, fractal_rect, cancel_token, spawned, writes,
                   calls, seen, lastRender, otherVars>>

\* ------------------------------------------------------------- render pass
RenderBegin ==
    /\ ctl.pc = "idle"
    /\ Called < MaxCalls
    /\ ctl' = [pc |-> "render", next |-> 0]
    /\ writes' = <<>>
    /\ calls' = [calls EXCEPT !.render = @ + 1]
    /\ lastRender' = [updates |-> calls.update, quiet |-> tasks = {}]
    /\ prev' = Touched
    /\ callbacks' = <<>>
    /\ UNCHANGED <<window_size, fractal_rect, state, cancel_token, tasks,
                   spawned, seen, otherVars>>

\* faulty variant: the tile is not marked Ready
RenderStateKeep(old) == old

\* lines 226-230: swap(&mut new_buff, buffer) moves the buffer out of a
\* WaitForUpload tile and leaves Vec::new() in its place
Swap(old) ==
    IF old.kind = "WaitForUpload"
    THEN [some |-> TRUE, buff |-> old.buffer,
          state |-> WaitForUpload([old.buffer EXCEPT !.len = 0])]
    ELSE [some |-> FALSE, buff |-> [len |-> 0, gen |-> 0, clean |-> TRUE],
          state |-> old]

\* faulty variant: the lock is released right after the swap
RenderStateSwapped(old) == Swap(old).state

\* lines 224-236: what the locked block leaves behind the mutex
RenderState(old) == IF Swap(old).some THEN Ready ELSE Swap(old).state

\* faulty variant: every buffer is written at the texture's origin
WriteRegionAtZero(k, buff) ==
    [origin |-> Vec2(0, 0),
     extent |-> TileAt(k).tex_rect.size,
     bytes  |-> buff.len,
     gen    |-> buff.gen,
     clean  |-> buff.clean]

\* lines 238-261: the write_texture call for the buffer taken from tile k
WriteRegion(k, buff) ==
    [origin |-> TileAt(k).tex_rect.pos,
     extent |-> TileAt(k).tex_rect.size,
     bytes  |-> buff.len,
     gen    |-> buff.gen,
     clean  |-> buff.clean]

\* one iteration of the for_each of render
RenderTile ==
    /\ ctl.pc = "render"
    /\ LET k == ctl.next
       IN  /\ state' = [state EXCEPT ![k] = RenderState(@)]
           /\ writes' = IF Swap(state[k]).some
                        THEN Append(writes, WriteRegion(k, Swap(state[k]).buff))
                        ELSE writes
    /\ ctl' = PassStep
    /\ callbacks' = <<>>
    /\ UNCHANGED <<window_size, fractal_rect, cancel_token, tasks, spawned,
                   calls, seen, prev, lastRender, otherVars>>

\* ------------------------------------------------------------------ resize
ResizeWindow(size) ==
    /\ ctl.pc = "idle"
    /\ Called < MaxCalls
    /\ window_size' = size
    /\ calls' = [calls EXCEPT !.resize = @ + 1]
    /\ prev' = Touched
    /\ callbacks' = <<>>
    /\ UNCHANGED <<fractal_rect, state, cancel_token, tasks, spawned, ctl,
                   writes, seen, lastRender, otherVars>>

Next ==
    \/ \E frame_rect \in Frames : UpdateBegin(frame_rect)
    \/ UpdateTile
    \/ \E t \in tasks : TaskStart(t)
    \/ \E t \in tasks : TaskPoll(t)
    \/ \E t \in tasks : TaskCommit(t)
    \/ RenderBegin
    \/ RenderTile
    \/ \E size \in WindowSizes : ResizeWindow(size)

Spec == Init /\ [][Next]_vars

\* the same system with task_handle.abort() (lines 160, 172) doing nothing
InitNoAbort ==
    /\ window_size \in WindowSizes
    /\ fractal_rect = ZeroRect
    /\ state = [k \in TileIds |-> Idle]
    /\ cancel_token = [k \in TileIds |-> 0]
    /\ tasks = {}
    /\ spawned = [k \in TileIds |-> 0]
    /\ ctl = IdleCtl
    /\ writes = <<>>
    /\ calls = [update |-> 0, render |-> 0, resize |-> 0]
    /\ seen = [k \in TileIds |-> "never"]
    /\ prev = NoPrev
    /\ lastRender = NoRender
    /\ callbacks = <<>>
    /\ abort_enabled = FALSE
    /\ gridRes = 0 /\ gridTile = 0 /\ grid = NoGrid /\ probe = NoProbe
    /\ pixel = NoPixel /\ scan = NoScan /\ counter = NoCounter
    /\ mapping = NoMapping
    /\ lk = NoLk
    /\ app = NoApp

SpecNoAbort == InitNoAbort /\ [][Next]_vars

\* ---- the system called for ever with one frame and one window size
\* update and render are called again and again, so nothing here counts
\* calls.  To keep the states finite the tokens, the task handles and the
\* queue positions are renamed after every iteration of update, which is
\* all the program can observe of them: a token value is 1 if it is the
\* tile's current value and 0 if it is an older one, a new task gets the
\* smallest handle no living task of its tile has, and the queue positions
\* are the ranks 0, 1, .. in spawn order.
NormTok(v, cur) == IF v = cur THEN 1 ELSE 0

Rank(t, ts) == Cardinality({u \in ts : u.seq < t.seq})

NormTasks(ts, tok) ==
    {[t EXCEPT !.gen = NormTok(@, tok[t.tile]),
               !.cancel_token_value =
                   IF t.pc = "queued" THEN 0 ELSE NormTok(@, tok[t.tile]),
               !.seq = Rank(t, ts)] : t \in ts}

NormState(s, cur) ==
    IF s.kind = "WaitForUpload"
    THEN WaitForUpload([s.buffer EXCEPT !.gen = NormTok(@, cur)])
    ELSE s

FreshId(k, ts) ==
    CHOOSE n \in 0 .. MaxLiveTasks :
        /\ \A t \in ts : ~(t.tile = k /\ t.id = n)
        /\ \A m \in 0 .. (n - 1) : \E t \in ts : t.tile = k /\ t.id = m

\* the frame that is requested for ever: the square of side 3 at the origin
LiveFrames == {Rect(Vec2(0, 0), Vec2(3 * One, 3 * One))}

\* the frame of every update call is prev.frame_rect; calls.update is kept
\* at MaxLiveTasks so that a new task queues behind the ranks of the others;
\* the calls alternate, update first, and lastRender.updates is the number
\* of update calls since the latest render call (0 or 1)
InitLive ==
    /\ window_size \in WindowSizes
    /\ fractal_rect = ZeroRect
    /\ state = [k \in TileIds |-> Idle]
    /\ cancel_token = [k \in TileIds |-> 1]
    /\ tasks = {}
    /\ spawned = [k \in TileIds |-> 0]
    /\ ctl = IdleCtl
    /\ writes = <<>>
    /\ calls = [update |-> MaxLiveTasks, render |-> 0, resize |-> 0]
    /\ seen = [k \in TileIds |-> "never"]
    /\ prev \in {[NoPrev EXCEPT !.frame_rect = f, !.window_size = w] :
                   f \in LiveFrames, w \in {window_size}}
    /\ lastRender = [updates |-> 0, quiet |-> FALSE]
    /\ callbacks = <<>>
    /\ abort_enabled = TRUE
    /\ gridRes = 0 /\ gridTile = 0 /\ grid = NoGrid /\ probe = NoProbe
    /\ pixel = NoPixel /\ scan = NoScan /\ counter = NoCounter
    /\ mapping = NoMapping
    /\ lk = NoLk
    /\ app = NoApp

\* the control thread is about to call update
CanBeginUpdate == ctl.pc = "idle" /\ lastRender.updates = 0

\* update(frame_rect, ..) is called (lines 134-149)
LiveUpdateBegin ==
    /\ CanBeginUpdate
    /\ lastRender' = [lastRender EXCEPT !.updates = 1]
    /\ \E scale_changed \in {ScaleChanged(prev.frame_rect)} :
          /\ fractal_rect' = NewFractalRect(prev.frame_rect, scale_changed)
          /\ ctl' = [pc            |-> "update",
                     next          |-> 0,
                     frame_rect    |-> prev.frame_rect,
                     scale_changed |-> scale_changed,
                     start_token   |-> cancel_token,
                     repeat        |-> FALSE]
    /\ callbacks' = <<>>
    /\ UNCHANGED <<window_size, state, cancel_token, tasks, spawned, writes,
                   calls, seen, prev, otherVars>>

\* the update pass has a tile to visit and the runtime room for its task
CanUpdateTile == ctl.pc = "update" /\ Cardinality(tasks) < MaxLiveTasks

\* one iteration of the for_each of update (lines 153-215), then the renaming
LiveUpdateTile ==
    /\ CanUpdateTile
    /\ LET k   == ctl.next
           r   == UpdateTileResult(k, Visible(k, ctl.frame_rect))
           tok == [cancel_token EXCEPT ![k] = r.token]
           st  == [state EXCEPT ![k] = r.state]
       IN  /\ state' = [j \in TileIds |-> NormState(st[j], tok[j])]
           /\ cancel_token' = [j \in TileIds |-> 1]
           /\ tasks' = NormTasks(r.tasks, tok)
           /\ spawned' = [j \in TileIds |-> FreshId(j, r.tasks)]
    /\ ctl' = PassStep
    /\ callbacks' = <<>>
    /\ UNCHANGED <<window_size, fractal_rect, writes, calls, seen, prev,
                   lastRender, otherVars>>

\* render(..) is called (line 218)
LiveRenderBegin ==
    /\ ctl.pc = "idle"
    /\ lastRender.updates = 1
    /\ lastRender' = [lastRender EXCEPT !.updates = 0]
    /\ ctl' = [pc |-> "render", next |-> 0]
    /\ writes' = <<>>
    /\ callbacks' = <<>>
    /\ UNCHANGED <<window_size, fractal_rect, state, cancel_token, tasks,
                   spawned, calls, seen, prev, otherVars>>

NextLive ==
    \/ LiveUpdateBegin
    \/ LiveUpdateTile
    \/ \E t \in tasks : TaskStart(t)
    \/ \E t \in tasks : TaskPoll(t)
    \/ \E t \in tasks : TaskCommit(t)
    \/ LiveRenderBegin
    \/ RenderTile

\* both calls keep being made and their passes run on; the runtime
\* schedules every spawned task.  The weak fairness of LiveUpdateBegin and
\* of LiveUpdateTile is written out with the condition that enables them.
SpecLive ==
    /\ InitLive /\ [][NextLive]_vars
    /\ ([]<>(~CanBeginUpdate) \/ []<><<LiveUpdateBegin>>_vars)
    /\ ([]<>(~CanUpdateTile) \/ []<><<LiveUpdateTile>>_vars)
    /\ WF_vars(LiveRenderBegin) /\ WF_vars(RenderTile)
    /\ WF_vars(\E t \in tasks : TaskStart(t))
    /\ WF_vars(\E t \in tasks : TaskPoll(t))
    /\ WF_vars(\E t \in tasks : TaskCommit(t))

\* ------------------------------------------------- construction study
mainVars == <<window_size, fractal_rect, state, cancel_token, tasks, spawned,
              ctl, writes, calls, seen, prev, lastRender, callbacks,
              abort_enabled>>

\* the texel (x, y) lies in the tile's texture rectangle
Covers(tile, x, y) ==
    /\ tile.tex_rect.pos.x <= x /\ x < tile.tex_rect.pos.x + tile.tex_rect.size.x
    /\ tile.tex_rect.pos.y <= y /\ y < tile.tex_rect.pos.y + tile.tex_rect.size.y

InitGrid ==
    /\ window_size = Vec2(256, 192)
    /\ fractal_rect = ZeroRect
    /\ state = [k \in TileIds |-> Idle]
    /\ cancel_token = [k \in TileIds |-> 0]
    /\ tasks = {}
    /\ spawned = [k \in TileIds |-> 0]
    /\ ctl = IdleCtl
    /\ writes = <<>>
    /\ calls = [update |-> 0, render |-> 0, resize |-> 0]
    /\ seen = [k \in TileIds |-> "never"]
    /\ prev = NoPrev
    /\ lastRender = NoRender
    /\ callbacks = <<>>
    /\ abort_enabled = TRUE
    /\ pixel = NoPixel /\ scan = NoScan /\ counter = NoCounter
    /\ gridRes \in 1 .. MaxGridRes
    /\ gridTile \in 1 .. MaxGridTile
    /\ grid = NoGrid
    /\ probe = NoProbe
    /\ mapping = NoMapping
    /\ lk = NoLk
    /\ app = NoApp

\* MandelTexture::new for the drawn texture and tile sides
GridNew ==
    /\ ~grid.built
    /\ grid' = [built |-> TRUE,
                ok    |-> NewTiles(gridRes, gridTile).ok,
                tiles |-> NewTiles(gridRes, gridTile).tiles]
    /\ UNCHANGED <<mainVars, gridRes, gridTile, probe, pixel, scan, counter, mapping,
                   lk, app>>

\* look up the tiles that hold one texel of the texture
GridProbe(x, y) ==
    /\ grid.built /\ grid.ok
    /\ probe' = [x |-> x, y |-> y,
                 owners |-> {n \in 1 .. Len(grid.tiles) :
                                Covers(grid.tiles[n], x, y)}]
    /\ UNCHANGED <<mainVars, gridRes, gridTile, grid, pixel, scan, counter, mapping,
                   lk, app>>

NextGrid ==
    \/ GridNew
    \/ \E x \in 0 .. (gridRes - 1), y \in 0 .. (gridRes - 1) : GridProbe(x, y)

SpecGrid == InitGrid /\ [][NextGrid]_vars

\* ---- MandelTexture::new as a function of the texture side and the tile side
\* the main system, untouched by a study of one of its functions
Parked ==
    /\ window_size = Vec2(256, 192)
    /\ fractal_rect = ZeroRect
    /\ state = [k \in TileIds |-> Idle]
    /\ cancel_token = [k \in TileIds |-> 0]
    /\ tasks = {}
    /\ spawned = [k \in TileIds |-> 0]
    /\ ctl = IdleCtl
    /\ writes = <<>>
    /\ calls = [update |-> 0, render |-> 0, resize |-> 0]
    /\ seen = [k \in TileIds |-> "never"]
    /\ prev = NoPrev
    /\ lastRender = NoRender
    /\ callbacks = <<>>
    /\ abort_enabled = TRUE

Panic == [built |-> TRUE, ok |-> FALSE, tiles |-> <<>>,
          state |-> <<>>, cancel_token |-> <<>>]

\* faulty variant: the assertion of line 59 is missing
NewNoMinimum(tex_size, tile) ==
    IF ~NewTiles(tex_size, tile).ok THEN Panic
    ELSE [built |-> TRUE, ok |-> TRUE,
          tiles |-> NewTiles(tex_size, tile).tiles,
          state |-> [n \in 1 .. Len(NewTiles(tex_size, tile).tiles) |-> Idle],
          cancel_token |->
              [n \in 1 .. Len(NewTiles(tex_size, tile).tiles) |-> 0]]

\* lines 55-95: assert!(tex_size >= 1024), assert_eq!(tex_size % TILE_SIZE,
\* 0), then the tiles, each with state Idle and token 0 (lines 91-92)
New(tex_size, tile) ==
    IF tex_size < MIN_TEX_SIZE THEN Panic
    ELSE IF ~NewTiles(tex_size, tile).ok THEN Panic
    ELSE [built |-> TRUE, ok |-> TRUE,
          tiles |-> NewTiles(tex_size, tile).tiles,
          state |-> [n \in 1 .. Len(NewTiles(tex_size, tile).tiles) |-> Idle],
          cancel_token |->
              [n \in 1 .. Len(NewTiles(tex_size, tile).tiles) |-> 0]]

\* tile sides tried: the program's, its double and its quadruple
NewTileSides == {TILE_SIZE, 2 * TILE_SIZE, 4 * TILE_SIZE}

InitNew ==
    /\ Parked
    /\ gridRes \in (MIN_TEX_SIZE - 2 * MaxNewSpan) .. (MIN_TEX_SIZE + MaxNewSpan)
    /\ gridTile \in NewTileSides
    /\ grid = NoGrid
    /\ probe = NoProbe
    /\ pixel = NoPixel /\ scan = NoScan /\ counter = NoCounter
    /\ mapping = NoMapping
    /\ lk = NoLk
    /\ app = NoApp

NewStore ==
    /\ ~grid.built
    /\ grid' = New(gridRes, gridTile)
    /\ UNCHANGED <<mainVars, gridRes, gridTile, probe, pixel, scan, counter, mapping,
                   lk, app>>

NextNew == NewStore

SpecNew == InitNew /\ [][NextNew]_vars

\* ---- the iteration loop of one pixel (lines 321-332)
\* `it as u8`: the low eight bits of the u32
AsU8(n) == n % 256

\* pixel.esc is the pixel's escape time: z.norm() <= 8.0 holds for the z
\* reached after fewer than esc iterations and fails after esc of them (z
\* starts at 0, so esc >= 1; an orbit that stays bounded has esc > MAX_IT + 1)
InitPixel ==
    /\ Parked
    /\ gridRes = 0 /\ gridTile = 0 /\ grid = NoGrid /\ probe = NoProbe
    /\ scan = NoScan /\ counter = NoCounter
    /\ pixel \in {[pc |-> "loop", esc |-> e, it |-> 0, byte |-> 0] :
                    e \in 1 .. MaxEsc}
    /\ mapping = NoMapping
    /\ lk = NoLk
    /\ app = NoApp

\* line 327: while z.norm() <= 8.0 && it <= MAX_IT
LoopGuard == pixel.it < pixel.esc /\ pixel.it <= MAX_IT

\* lines 328-329: z = z * z + c; it += 1
PixelIterate ==
    /\ pixel.pc = "loop" /\ LoopGuard
    /\ pixel' = [pixel EXCEPT !.it = @ + 1]
    /\ UNCHANGED <<mainVars, gridVars, scan, counter, mapping, lk, app>>

\* line 332: buffer[..] = it as u8
PixelStore ==
    /\ pixel.pc = "loop" /\ ~LoopGuard
    /\ pixel' = [pixel EXCEPT !.pc = "done", !.byte = AsU8(pixel.it)]
    /\ UNCHANGED <<mainVars, gridVars, scan, counter, mapping, lk, app>>

NextPixel == PixelIterate \/ PixelStore

SpecPixel == InitPixel /\ [][NextPixel]_vars

\* ---- the scan of one tile (lines 295-346), pixel by pixel
\* tile_rect.size of the scan: a quarter, a half and the whole of the
\* program's tile width, by 1 .. MaxScanRows rows
ScanSizes ==
    {Vec2(w, h) : w \in {TILE_SIZE \div 4, TILE_SIZE \div 2, TILE_SIZE},
                  h \in 1 .. MaxScanRows}

\* the scan after line 295 loaded the token; scan.since counts the pixels
\* stored since the token was incremented
InitScan ==
    /\ Parked
    /\ gridRes = 0 /\ gridTile = 0 /\ grid = NoGrid /\ probe = NoProbe
    /\ pixel = NoPixel /\ counter = NoCounter
    /\ scan \in {[pc |-> "loop", size |-> sz, x |-> 0, y |-> 0, token |-> 0,
                   cancel_token_value |-> 0, since |-> 0] : sz \in ScanSizes}
    /\ mapping = NoMapping
    /\ lk = NoLk
    /\ app = NoApp

\* lines 309-310: if x % 32 == 0 { if cancel_token.load() != cancel_token_value
ScanCancelled ==
    /\ scan.x % CheckEvery = 0
    /\ scan.token # scan.cancel_token_value

\* lines 307-313: the head of one iteration of the inner loop
ScanCheck ==
    /\ scan.pc = "loop" /\ scan.y < scan.size.y
    /\ scan' = [scan EXCEPT !.pc = IF ScanCancelled THEN "cancelled"
                                                     ELSE "pixel"]
    /\ UNCHANGED <<mainVars, gridVars, pixel, counter, mapping, lk, app>>

\* lines 315-332: the pixel is computed and stored; the loops advance
ScanPixel ==
    /\ scan.pc = "pixel"
    /\ scan' = [scan EXCEPT
                   !.pc = "loop",
                   !.x = IF scan.x + 1 = scan.size.x THEN 0 ELSE scan.x + 1,
                   !.y = IF scan.x + 1 = scan.size.x THEN @ + 1 ELSE @,
                   !.since = IF scan.token # scan.cancel_token_value
                             THEN @ + 1 ELSE @]
    /\ UNCHANGED <<mainVars, gridVars, pixel, counter, mapping, lk, app>>

\* line 345: Ok(buffer) once both loops are through
ScanReturn ==
    /\ scan.pc = "loop" /\ scan.y = scan.size.y
    /\ scan' = [scan EXCEPT !.pc = "ok"]
    /\ UNCHANGED <<mainVars, gridVars, pixel, counter, mapping, lk, app>>

\* lines 158 and 171, on the control thread: fetch_add(1) on the tile's token
\* at any moment of the scan
ScanBump ==
    /\ scan.pc \in {"loop", "pixel"}
    /\ scan.token < MaxBumps
    /\ scan' = [scan EXCEPT !.token = @ + 1]
    /\ UNCHANGED <<mainVars, gridVars, pixel, counter, mapping, lk, app>>

NextScan == ScanCheck \/ ScanPixel \/ ScanReturn \/ ScanBump

SpecScan == InitScan /\ [][NextScan]_vars

\* ---- one tile's cancel_token, an AtomicU32 (lines 32 and 92)
\* a u32 is kept as its two 16-bit halves
Half == 2 ^ 16

U32(hi, lo) == [hi |-> hi, lo |-> lo]

\* AtomicU32::fetch_add(1, Relaxed): the addition wraps around
FetchAdd(v) ==
    IF v.lo + 1 < Half THEN U32(v.hi, v.lo + 1)
    ELSE U32((v.hi + 1) % Half, 0)

\* a < b as u32
Below(a, b) == a.hi < b.hi \/ (a.hi = b.hi /\ a.lo < b.lo)

\* the token after few increments (from 0, line 92) and after almost 2^32
TokenStarts ==
    {U32(0, n) : n \in 0 .. MaxTokenSpan} \cup
    {U32(Half - 1, Half - n) : n \in 1 .. MaxTokenSpan}

InitToken ==
    /\ Parked
    /\ gridRes = 0 /\ gridTile = 0 /\ grid = NoGrid /\ probe = NoProbe
    /\ pixel = NoPixel /\ scan = NoScan
    /\ counter \in {[pc |-> "live", value |-> v, old |-> v, adds |-> 0] :
                      v \in TokenStarts}
    /\ mapping = NoMapping
    /\ lk = NoLk
    /\ app = NoApp

\* lines 158 and 171: tile.cancel_token.fetch_add(1, Relaxed)
TokenAdd ==
    /\ counter.pc = "live"
    /\ counter.adds < MaxTokenAdds
    /\ counter' = [counter EXCEPT !.old = counter.value,
                                  !.value = FetchAdd(counter.value),
                                  !.adds = @ + 1]
    /\ UNCHANGED <<mainVars, gridVars, pixel, scan, mapping, lk, app>>

NextToken == TokenAdd

SpecToken == InitToken /\ [][NextToken]_vars

\* ---- Tile::fractal_rect as a function of the global rectangle
\* the global rectangles tried: squares (line 142) with a corner at whole
\* coordinates and a side of 3 or of 1, 1/2, .. 1/2^MaxRectZoom; all of
\* these numbers are floats of the model
GlobalRects ==
    {Rect(Vec2(px * One, py * One), Vec2(side, side)) :
        px \in 0 .. MaxRectPos, py \in 0 .. 1,
        side \in {3 * One} \cup {One \div (2 ^ z) : z \in 0 .. MaxRectZoom}}

InitMap ==
    /\ Parked
    /\ gridRes = 0 /\ gridTile = 0 /\ grid = NoGrid /\ probe = NoProbe
    /\ pixel = NoPixel /\ scan = NoScan /\ counter = NoCounter
    /\ mapping \in {[pc |-> "call", global |-> g, rects |-> <<>>] :
                      g \in GlobalRects}
    /\ lk = NoLk
    /\ app = NoApp

\* tile.fractal_rect(self.tex_size, self.fractal_rect) for every tile
MapTiles ==
    /\ mapping.pc = "call"
    /\ mapping' = [mapping EXCEPT
                      !.pc = "done",
                      !.rects = [n \in 1 .. NumTiles |->
                                    TileFractalRect(Tiles[n],
                                                    Vec2(TexSize, TexSize),
                                                    mapping.global)]]
    /\ UNCHANGED <<mainVars, gridVars, pixel, scan, counter, lk, app>>

NextMap == MapTiles

SpecMap == InitMap /\ [][NextMap]_vars

\* ---- the tile mutexes (tile.state: Arc<Mutex<TileState>>, line 31)
\* What the holder of a lock does with the tile's state is the subject of
\* Spec; here a thread is the control thread or a spawned task, and
\* lk.holder[k] is NoThread or the thread that holds tile k's mutex.
NoThread == [who |-> "none", tile |-> 0, id |-> 0]

CtlThread == [who |-> "ctl", tile |-> 0, id |-> 0]

TaskId(t) == [who |-> "task", tile |-> t.tile, id |-> t.id]

InitLock ==
    /\ Parked
    /\ gridRes = 0 /\ gridTile = 0 /\ grid = NoGrid /\ probe = NoProbe
    /\ pixel = NoPixel /\ scan = NoScan /\ counter = NoCounter
    /\ mapping = NoMapping
    /\ lk = [ctl |-> [pc |-> "idle", kind |-> "none", next |-> 0],
             holder |-> [k \in TileIds |-> NoThread],
             tasks |-> {}, passes |-> 0, spawns |-> 0]
    /\ app = NoApp

\* update (line 116) or render (line 218) is called: for_each starts
LockPass(kind) ==
    /\ lk.ctl.pc = "idle"
    /\ lk.passes < MaxLockPasses
    /\ lk' = [lk EXCEPT !.ctl = [pc |-> "want", kind |-> kind, next |-> 0],
                        !.passes = @ + 1]
    /\ UNCHANGED <<mainVars, gridVars, pixel, scan, counter, mapping, app>>

\* tile.state.lock() on the control thread (lines 155 and 225)
CtlLock ==
    /\ lk.ctl.pc = "want"
    /\ lk.holder[lk.ctl.next] = NoThread
    /\ lk' = [lk EXCEPT !.ctl.pc = "held", !.holder[lk.ctl.next] = CtlThread]
    /\ UNCHANGED <<mainVars, gridVars, pixel, scan, counter, mapping, app>>

\* faulty variant: the guard outlives the iteration
ReleasedNever(k, holder) == holder

\* the MutexGuard is dropped: end of the closure (line 215), of the block
\* (line 236) or of the task (line 210)
Released(k, holder) == [holder EXCEPT ![k] = NoThread]

\* the next iteration of for_each, or the end of the pass
CtlNext ==
    IF lk.ctl.next + 1 = NumTiles
    THEN [pc |-> "idle", kind |-> "none", next |-> 0]
    ELSE [lk.ctl EXCEPT !.pc = "want", !.next = @ + 1]

\* lines 157-214 under the lock: the iteration returns early or spawns a
\* task for the tile (line 190); the spawned task starts with mandelbrot()
CtlUpdateBody ==
    /\ lk.ctl.pc = "held" /\ lk.ctl.kind = "update"
    /\ \E spawn \in BOOLEAN :
          /\ spawn => lk.spawns < MaxLockTasks
          /\ lk' = [lk EXCEPT
                       !.tasks = IF spawn
                                 THEN @ \cup {[tile |-> lk.ctl.next,
                                               id |-> lk.spawns,
                                               pc |-> "scan"]}
                                 ELSE @,
                       !.spawns = IF spawn THEN @ + 1 ELSE @,
                       !.holder = Released(lk.ctl.next, @),
                       !.ctl = CtlNext]
    /\ UNCHANGED <<mainVars, gridVars, pixel, scan, counter, mapping, app>>

\* lines 224-236 under the lock: a buffer is taken, or the iteration returns
CtlRenderBody ==
    /\ lk.ctl.pc = "held" /\ lk.ctl.kind = "render"
    /\ \E some \in BOOLEAN :
          lk' = [lk EXCEPT
                   !.holder = Released(lk.ctl.next, @),
                   !.ctl = IF some THEN [@ EXCEPT !.pc = "upload"]
                                   ELSE CtlNext]
    /\ UNCHANGED <<mainVars, gridVars, pixel, scan, counter, mapping, app>>

\* lines 238-261: write_texture, after the block that held the lock
CtlUpload ==
    /\ lk.ctl.pc = "upload"
    /\ lk' = [lk EXCEPT !.ctl = CtlNext]
    /\ UNCHANGED <<mainVars, gridVars, pixel, scan, counter, mapping, app>>

\* lines 191-199: mandelbrot(..).await returns, with a buffer or cancelled
WorkerScan(t) ==
    /\ t \in lk.tasks /\ t.pc = "scan"
    /\ lk' = [lk EXCEPT !.tasks = (@ \ {t}) \cup {[t EXCEPT !.pc = "write"]}]
    /\ UNCHANGED <<mainVars, gridVars, pixel, scan, counter, mapping, app>>

\* faulty variant: the task locks the tile before it computes
MayLockEarly(t) == TRUE

\* line 200 comes after the await of lines 191-198
MayLock(t) == t.pc = "write"

\* line 200: tile_state_clone.lock() on a worker thread
WorkerLock(t) ==
    /\ t \in lk.tasks /\ MayLock(t)
    /\ lk.holder[t.tile] = NoThread
    /\ lk' = [lk EXCEPT !.holder[t.tile] = TaskId(t)]
    /\ UNCHANGED <<mainVars, gridVars, pixel, scan, counter, mapping, app>>

\* lines 201-210: the write-back, the callback (which takes no tile lock)
\* and the end of the task
WorkerWrite(t) ==
    /\ t \in lk.tasks /\ t.pc = "write"
    /\ lk.holder[t.tile] = TaskId(t)
    /\ lk' = [lk EXCEPT !.tasks = @ \ {t},
                        !.holder = Released(t.tile, @)]
    /\ UNCHANGED <<mainVars, gridVars, pixel, scan, counter, mapping, app>>

NextLock ==
    \/ \E kind \in {"update", "render"} : LockPass(kind)
    \/ CtlLock
    \/ CtlUpdateBody
    \/ CtlRenderBody
    \/ CtlUpload
    \/ \E t \in lk.tasks : WorkerScan(t)
    \/ \E t \in lk.tasks : WorkerLock(t)
    \/ \E t \in lk.tasks : WorkerWrite(t)

SpecLock == InitLock /\ [][NextLock]_vars

\* ---- the application loop (tiled_fractal_app.rs, main.rs)
\* The event loop thread delivers the TileReady events the tasks send and
\* redraws the window when a redraw was requested; tasks finish on their own
\* threads.  app.tile[k] is "Idle", "Computing" or "Ready", the last being
\* the state that holds the buffer (TileState::Ready { buffer }, line 251).
AppTiles == 0 .. (MaxAppTiles - 1)

\* faulty variant: a TileReady event sets the flag without asking for a redraw
UpdateUserEventContinue(event, flag) ==
    IF event = "Redraw"
    THEN [has_update_tiles |-> flag, result |-> "Redraw"]
    ELSE [has_update_tiles |-> TRUE, result |-> "Continue"]

\* update_user_event (lines 216-225): the flag afterwards and the result
UpdateUserEvent(event, flag) ==
    IF event = "Redraw"
    THEN [has_update_tiles |-> flag, result |-> "Redraw"]
    ELSE [has_update_tiles |-> TRUE, result |-> "Redraw"]

InitApp ==
    /\ Parked
    /\ gridRes = 0 /\ gridTile = 0 /\ grid = NoGrid /\ probe = NoProbe
    /\ pixel = NoPixel /\ scan = NoScan /\ counter = NoCounter
    /\ mapping = NoMapping
    /\ lk = NoLk
    /\ app = [pc |-> "loop", tile |-> [k \in AppTiles |-> "Idle"],
              has_update_tiles |-> FALSE, redraw |-> TRUE, events |-> 0,
              next |-> 0, spawns |-> 0]

\* a task is spawned for an idle tile while the loop handles an event
\* (render_fractal, lines 227-241)
AppSpawn(k) ==
    /\ app.pc = "loop"
    /\ app.spawns < MaxAppSpawns
    /\ app.tile[k] = "Idle"
    /\ app' = [app EXCEPT !.tile[k] = "Computing", !.spawns = @ + 1]
    /\ UNCHANGED <<mainVars, gridVars, pixel, scan, counter, mapping, lk>>

\* the task stores its buffer and calls the callback, which sends TileReady
\* (lines 233-239); this happens at any time, an upload pass included
AppTileReady(k) ==
    /\ app.pc # "none"
    /\ app.tile[k] = "Computing"
    /\ app' = [app EXCEPT !.tile[k] = "Ready", !.events = @ + 1]
    /\ UNCHANGED <<mainVars, gridVars, pixel, scan, counter, mapping, lk>>

\* the loop delivers one sent event: user_event of main.rs (lines 150-157)
\* calls update(Event::Custom(..)) and then process_event_result
AppUserEvent ==
    /\ app.pc = "loop"
    /\ app.events > 0
    /\ LET r == UpdateUserEvent("TileReady", app.has_update_tiles)
       IN  app' = [app EXCEPT !.events = @ - 1,
                              !.has_update_tiles = r.has_update_tiles,
                              !.redraw = @ \/ r.result = "Redraw"]
    /\ UNCHANGED <<mainVars, gridVars, pixel, scan, counter, mapping, lk>>

\* a mouse or resize event asks for a redraw (lines 105-118)
AppWindowEvent ==
    /\ app.pc = "loop"
    /\ ~app.redraw
    /\ app' = [app EXCEPT !.redraw = TRUE]
    /\ UNCHANGED <<mainVars, gridVars, pixel, scan, counter, mapping, lk>>

\* RedrawRequested: render (lines 151-161) clears the flag and begins the
\* upload pass if the flag was set
AppRender ==
    /\ app.pc = "loop"
    /\ app.redraw
    /\ app' = [app EXCEPT !.redraw = FALSE,
                          !.has_update_tiles = FALSE,
                          !.pc = IF app.has_update_tiles
                                 THEN "upload" ELSE "loop",
                          !.next = 0]
    /\ UNCHANGED <<mainVars, gridVars, pixel, scan, counter, mapping, lk>>

\* one iteration of update_tiles (lines 246-286): a Ready tile gives its
\* buffer to write_texture and becomes Idle
AppUploadTile ==
    /\ app.pc = "upload"
    /\ app' = [app EXCEPT
                 !.tile[app.next] = IF @ = "Ready" THEN "Idle" ELSE @,
                 !.next = IF app.next + 1 = MaxAppTiles THEN 0 ELSE @ + 1,
                 !.pc = IF app.next + 1 = MaxAppTiles THEN "loop" ELSE @]
    /\ UNCHANGED <<mainVars, gridVars, pixel, scan, counter, mapping, lk>>

NextApp ==
    \/ \E k \in AppTiles : AppSpawn(k)
    \/ \E k \in AppTiles : AppTileReady(k)
    \/ AppUserEvent
    \/ AppWindowEvent
    \/ AppRender
    \/ AppUploadTile

\* sent events are delivered, requested redraws happen, and a pass that
\* began runs to its end
SpecApp ==
    /\ InitApp /\ [][NextApp]_vars
    /\ WF_vars(AppUserEvent) /\ WF_vars(AppRender) /\ WF_vars(AppUploadTile)

\* ---- the global rectangle of an update call, for frames of window shape
\* windows no larger than the texture, one of them taller than wide
CoverWindows == {Vec2(80, 60), Vec2(256, 192), Vec2(256, 256), Vec2(64, 256)}

\* frames with the aspect ratio of the window w: 1, 2, .. 2^MaxCoverZoom
\* units of 1/One per window pixel, at whole coordinates up to MaxCoverPos;
\* all of these numbers are floats of the model
CoverFrames(w) ==
    {Rect(Vec2(px * One, py * One), Vec2(w.x * (2 ^ z), w.y * (2 ^ z))) :
        px \in {0, 1, 18, MaxCoverPos}, py \in {0, 1},
        z \in 0 .. MaxCoverZoom}

InitCover ==
    /\ window_size \in CoverWindows
    /\ fractal_rect = ZeroRect
    /\ state = [k \in TileIds |-> Idle]
    /\ cancel_token = [k \in TileIds |-> 0]
    /\ tasks = {}
    /\ spawned = [k \in TileIds |-> 0]
    /\ ctl = IdleCtl
    /\ writes = <<>>
    /\ calls = [update |-> 0, render |-> 0, resize |-> 0]
    /\ seen = [k \in TileIds |-> "never"]
    /\ prev = NoPrev
    /\ lastRender = NoRender
    /\ callbacks = <<>>
    /\ abort_enabled = TRUE
    /\ gridRes = 0 /\ gridTile = 0 /\ grid = NoGrid /\ probe = NoProbe
    /\ pixel = NoPixel /\ scan = NoScan /\ counter = NoCounter
    /\ mapping = NoMapping
    /\ lk = NoLk
    /\ app = NoApp

\* update is called with a frame of the window's shape (lines 134-149)
NextCover == \E f \in CoverFrames(window_size) : UpdateBegin(f)

SpecCover == InitCover /\ [][NextCover]_vars

\* ================================================================== claims
\* the worker write-back of task t happens in this step
Commits(t) == t \in tasks /\ t \notin tasks' /\ t.pc \in {"ok", "cancelled"}

\* the token of t's tile was incremented after t was dispatched
Stale(t) == t.gen # cancel_token[t.tile]

\* the tasks this step spawns
SpawnedNow ==
    {t \in tasks' : \A u \in tasks : <<u.tile, u.id>> # <<t.tile, t.id>>}

\* C1: cancellation race freedom.  A computation dispatched under an earlier
\* token value never puts its tile into WaitForUpload: the buffer of every
\* tile in WaitForUpload was dispatched under the tile's current token value.
C1_NoStaleUpload ==
    \A k \in TileIds :
        state[k].kind = "WaitForUpload" => state[k].buffer.gen = cancel_token[k]

\* C2: staleness is checked before write-back.  A task whose tile token was
\* incremented after its dispatch leaves the tile's state unchanged when it
\* takes the lock, whether it ended with a buffer or with the cancellation.
C2_StaleNeverCommits ==
    [][\A t \in tasks :
          (Commits(t) /\ Stale(t)) => state'[t.tile] = state[t.tile]]_vars

\* the unfinished tasks of tile k dispatched under its current token value
Live(k) == {t \in tasks : t.tile = k /\ t.gen = cancel_token[k]}

\* C3: at most one live computation per tile, and update dispatches none for
\* a tile that has one.
C3_OneLiveTask ==
    \A k \in TileIds : Cardinality(Live(k)) <= 1

\* the five transitions of the data model
Transitions ==
    { <<"Idle", "Computing">>, <<"Computing", "WaitForUpload">>,
      <<"Computing", "Idle">>, <<"WaitForUpload", "Ready">>,
      <<"Ready", "Idle">> }

\* the step is one iteration of update's for_each
VisitStep ==
    /\ ctl.pc = "update"
    /\ (ctl'.pc = "idle" \/ ctl'.next # ctl.next)

\* the assignments this step makes to tile k's state, as (old, new) pairs:
\* an iteration of update assigns at line 162 and then at line 173 or 212,
\* every other step assigns at most once
Assigned(k) ==
    IF VisitStep /\ k = ctl.next
    THEN LET mid == Invalidate(k, TileView(k), ctl.scale_changed).state
         IN  { <<state[k].kind, mid.kind>>, <<mid.kind, state'[k].kind>> }
    ELSE { <<state[k].kind, state'[k].kind>> }

\* C4: every change of a tile's state made by an assignment under the tile's
\* lock is one of the five transitions.
C4_OnlyFiveTransitions ==
    [][\A k \in TileIds : \A p \in Assigned(k) :
          p[1] # p[2] => p \in Transitions]_vars

\* C5: visibility monotonicity.  A tile whose latest visibility test in an
\* update pass failed is not Computing, and stays so until a pass finds it
\* visible.
C5_HiddenNotComputing ==
    \A k \in TileIds : seen[k] = "hidden" => state[k].kind # "Computing"

\* a Computing tile was cancelled because it was hidden: its token was
\* incremented by the second of two passes that did not both change the scale
C5_Witness ==
    \E k \in TileIds :
        /\ seen[k] = "hidden"
        /\ state[k] = Idle
        /\ spawned[k] = 1
        /\ cancel_token[k] = 2
        /\ calls.update = 2 /\ calls.resize = 0
        /\ window_size.x = 256

\* the step is an iteration of update's for_each in a pass that repeats the
\* call before it, with no worker write-back and no other call in between
RepeatStep ==
    /\ ctl.pc = "update" /\ ctl.repeat
    /\ ctl' # ctl
    /\ (ctl'.pc = "idle" \/ ctl'.repeat)

\* C6: idempotence of update.  The second of two consecutive calls with the
\* same visible rectangle and window size, no worker committing in between,
\* spawns no task, increments no token and changes no tile state.
C6_Idempotent ==
    [][RepeatStep => UNCHANGED <<state, cancel_token, tasks>>]_vars

\* the step dispatches a computation in a pass that detected a scale change
ScaleDispatch == ctl.pc = "update" /\ ctl.scale_changed /\ SpawnedNow # {}

\* C7 as stated: in a pass that detects a scale change every tile of the grid
\* has been invalidated (token incremented, state Idle) before the first
\* computation of the pass is dispatched.
C7_AllInvalidatedFirst ==
    [][ScaleDispatch =>
          \A j \in TileIds : cancel_token'[j] # ctl.start_token[j]]_vars

\* C7 amended: in a pass that detects a scale change each tile is invalidated
\* (token incremented once, the task of a Computing tile aborted) before the
\* pass dispatches a computation for that tile, and that computation is
\* dispatched under the incremented token.
C7_TileInvalidatedFirst ==
    [][ScaleDispatch =>
          \A t \in SpawnedNow :
              /\ cancel_token'[t.tile] = ctl.start_token[t.tile] + 1
              /\ t.gen = cancel_token'[t.tile]
              /\ state[t.tile].kind = "Computing" =>
                     \A u \in tasks' :
                         (u.tile = t.tile /\ u.id = state[t.tile].task_handle)
                             => u.pc # "queued"]_vars

\* a scale-changing pass has re-dispatched tile 0, which was Computing when
\* the pass began, while later tiles still carry the token of the pass start
C7_Witness ==
    /\ ctl.pc = "update" /\ ctl.scale_changed /\ ctl.next = 1
    /\ ctl.start_token[0] = 1
    /\ state[0].kind = "Computing"
    /\ \E t \in tasks : t.tile = 0 /\ t.gen = 2 /\ t.pc = "queued"
    /\ \E t \in tasks : t.tile = 0 /\ t.gen = 1 /\ t.pc # "queued"
    /\ state[1].kind = "Computing" /\ cancel_token[1] = ctl.start_token[1]

\* ---- texture-space rectangles
Overlap(r, o) ==
    /\ r.pos.x < o.pos.x + o.size.x /\ o.pos.x < r.pos.x + r.size.x
    /\ r.pos.y < o.pos.y + o.size.y /\ o.pos.y < r.pos.y + r.size.y

Inside(r, res) ==
    /\ 0 <= r.pos.x /\ r.pos.x + r.size.x <= res
    /\ 0 <= r.pos.y /\ r.pos.y + r.size.y <= res

RECURSIVE AreaSum(_, _)
AreaSum(rects, n) ==
    IF n = 0 THEN 0
    ELSE rects[n].size.x * rects[n].size.y + AreaSum(rects, n - 1)

\* the rectangles are pairwise disjoint and their union is [0,res) x [0,res):
\* disjoint rectangles inside the square whose areas add up to its area
Partition(rects, res) ==
    /\ \A n \in 1 .. Len(rects) : Inside(rects[n], res)
    /\ \A n, m \in 1 .. Len(rects) : n # m => ~Overlap(rects[n], rects[m])
    /\ AreaSum(rects, Len(rects)) = res * res

EndToEnd ==
    /\ ctl.pc = "idle"
    /\ calls.update = 1 /\ calls.render = 1
    /\ lastRender = [updates |-> 1, quiet |-> TRUE]
    /\ \A k \in TileIds : seen[k] = "visible"

\* C9: end-to-end completion.  After one update of the fresh store that meets
\* every tile, all computations finished and one render pass run, every tile
\* is Ready and the pass issued one write per tile, the regions partitioning
\* the texture, each with tile_width x tile_height bytes.
C9_EndToEnd ==
    EndToEnd =>
        /\ \A k \in TileIds : state[k] = Ready
        /\ Len(writes) = NumTiles
        /\ \A n \in 1 .. Len(writes) :
              writes[n].bytes = writes[n].extent.x * writes[n].extent.y
        /\ Partition([n \in 1 .. Len(writes) |->
                         Rect(writes[n].origin, writes[n].extent)], TexSize)

C9_Witness == EndToEnd /\ Len(writes) = NumTiles /\ tasks = {}

\* the step ends an update pass that began with every tile Idle
PassEnd == ctl.pc = "update" /\ ctl'.pc = "idle" /\ prev.idle_start

C11_BufferLength ==
    \A k \in TileIds :
        state[k].kind = "WaitForUpload" =>
            state[k].buffer.len = TileAt(k).tex_rect.size.x
                                  * TileAt(k).tex_rect.size.y

\* a render pass has taken tile 0's buffer while tile 1's buffer, committed
\* after the pass had gone by, is still waiting
C11_Witness ==
    /\ calls.render >= 1
    /\ state[0] = Ready
    /\ Len(writes) >= 1 /\ writes[1].origin = TileAt(0).tex_rect.pos
    /\ state[1].kind = "WaitForUpload"
    /\ state[1].buffer.len = TILE_SIZE * TILE_SIZE

\* C12: no partial buffer is uploaded.  Every buffer the render pass hands to
\* write_texture has one byte for every pixel of the tile and comes from a
\* scan during which the tile's token was never incremented.
C12_UploadedBuffersClean ==
    \A n \in 1 .. Len(writes) :
        /\ writes[n].bytes = writes[n].extent.x * writes[n].extent.y
        /\ writes[n].clean

\* the step is the write-back of a computation that returned a buffer
CommitsBuffer(t) == Commits(t) /\ t.pc = "ok"

\* C13: completion notification.  The tile-ready callback is invoked exactly
\* once, with the tile's index, by each write-back that puts a tile into
\* WaitForUpload, the tile being WaitForUpload when the step is over; it is not
\* invoked by a write-back after a cancellation nor by update or render.
C13_CallbackPerCommit ==
    [][/\ \A t \in tasks :
             CommitsBuffer(t) =>
                 /\ callbacks' = <<t.tile>>
                 /\ state'[t.tile].kind = "WaitForUpload"
       /\ (\A t \in tasks : ~CommitsBuffer(t)) => callbacks' = <<>>]_vars

\* tile 1's worker has just written its buffer back and invoked the callback
\* after tile 0's computation had ended with the cancellation outcome
C13_Witness ==
    /\ callbacks = <<1>>
    /\ state[1].kind = "WaitForUpload"
    /\ state[0] = Idle /\ spawned[0] >= 1 /\ seen[0] = "visible"

\* the step is one iteration of render's for_each
RenderVisit == ctl.pc = "render" /\ ctl' # ctl

\* the write this step appended for tile k, holding the buffer the tile had
WroteFor(k) ==
    /\ Len(writes') = Len(writes) + 1
    /\ SubSeq(writes', 1, Len(writes)) = writes
    /\ LET w == writes'[Len(writes')]
       IN  /\ w.origin = TileAt(k).tex_rect.pos
           /\ w.extent = TileAt(k).tex_rect.size
           /\ w.bytes = state[k].buffer.len
           /\ w.gen = state[k].buffer.gen

\* C14: upload pass.  A render pass turns each tile it finds in WaitForUpload
\* into Ready and issues exactly one write with that tile's buffer, origin and
\* size; a tile found Idle, Computing or Ready is left as it is and nothing is
\* written for it; no tile is written twice in a pass; render changes no
\* token, no task and not the fractal rectangle.
C14_UploadPass ==
    [][/\ RenderVisit =>
             /\ IF state[ctl.next].kind = "WaitForUpload"
                THEN state'[ctl.next] = Ready /\ WroteFor(ctl.next)
                ELSE state'[ctl.next] = state[ctl.next] /\ writes' = writes
             /\ \A j \in TileIds \ {ctl.next} : state'[j] = state[j]
             /\ \A n, m \in 1 .. Len(writes') :
                    n # m => writes'[n].origin # writes'[m].origin
       /\ (ctl.pc = "render" \/ ctl'.pc = "render") =>
             UNCHANGED <<cancel_token, fractal_rect, window_size>>
       /\ (RenderVisit \/ (ctl.pc = "idle" /\ ctl'.pc = "render")) =>
             UNCHANGED <<tasks, spawned>>]_vars

\* a second render pass has found tile 0 Ready from the first, uploaded tile
\* 1's buffer and passed tile 2, which is still Computing
C14_Witness ==
    /\ ctl.pc = "render" /\ ctl.next = 3
    /\ calls.render = 2
    /\ state[0] = Ready
    /\ state[1] = Ready
    /\ Len(writes) = 1 /\ writes[1].origin = TileAt(1).tex_rect.pos
    /\ state[2].kind = "Computing"

\* C15: construction validation.  Creating the store panics when the texture
\* side is below 1024 or not a multiple of the tile side, and otherwise yields
\* the (R/T)^2 tiles, every one Idle with token 0.
C15_ConstructionValidation ==
    grid.built =>
        /\ grid.ok <=> (gridRes >= 1024 /\ gridRes % gridTile = 0)
        /\ ~grid.ok => grid = Panic
        /\ grid.ok =>
              /\ Len(grid.tiles) = (gridRes \div gridTile) * (gridRes \div gridTile)
              /\ Len(grid.tiles) > 0
              /\ DOMAIN grid.state = 1 .. Len(grid.tiles)
              /\ DOMAIN grid.cancel_token = 1 .. Len(grid.tiles)
              /\ \A n \in 1 .. Len(grid.tiles) :
                     grid.state[n] = Idle /\ grid.cancel_token[n] = 0

\* construction panicked for a side that is a multiple of the tile side but
\* below the minimum
C15_Witness ==
    /\ grid.built /\ ~grid.ok
    /\ gridRes = 896 /\ gridTile = 128

\* C16: the abort is only a latency optimisation.  In the system whose abort
\* does nothing, a computation on which abort was called before its first
\* poll never puts its tile into WaitForUpload: the cooperative token check
\* alone keeps out every result that the abort keeps out.
C16_AbortOnlyLatency ==
    [][\A t \in tasks : CommitsBuffer(t) => ~t.aborted]_vars

\* C17: pixel encoding.  The byte stored for a pixel is the number n of
\* iterations its loop performed, capped at 255.
C17_ByteIsCappedCount ==
    pixel.pc = "done" =>
        pixel.byte = (IF pixel.it < 255 THEN pixel.it ELSE 255)

\* C18: token captured at dispatch.  The token value a computation compares
\* against is the value the tile's token had when update dispatched it, so a
\* task whose token was incremented between its dispatch and its first step
\* ends with the cancellation outcome.
C18_TokenCapturedAtDispatch ==
    \A t \in tasks : t.pc # "queued" => t.cancel_token_value = t.gen

\* C19: bounded cancellation response.  Once the token of a running scan was
\* incremented, the scan stores at most 32 further pixels and then returns
\* the cancellation outcome, wherever in the scan the increment happens.
C19_BoundedCancellation ==
    (scan.token # scan.cancel_token_value /\ scan.since > 0) =>
        /\ scan.since <= CheckEvery
        /\ scan.pc # "ok"

\* the tile holds a result: a buffer waiting for upload or an uploaded one
Cached(k) == state[k].kind \in {"WaitForUpload", "Ready"}

\* C20: cached results survive pans.  In an update pass without a scale
\* change the visit of a tile that is in WaitForUpload or Ready, visible or
\* not, and the visit of a visible Computing tile change neither the tile's
\* state (buffer or task handle included) nor its token, abort nothing and
\* spawn nothing.
C20_CachedSurvivePan ==
    [][(VisitStep /\ ~ctl.scale_changed) =>
          LET k == ctl.next
          IN  (\/ Cached(k)
               \/ state[k].kind = "Computing" /\ seen'[k] = "visible")
              => /\ state'[k] = state[k]
                 /\ cancel_token'[k] = cancel_token[k]
                 /\ tasks' = tasks
                 /\ spawned' = spawned]_vars

\* a pass without a scale change has visited a visible tile and a hidden
\* tile that both were Ready (no worker writes Ready, so they were when
\* visited)
C20_Witness ==
    /\ ctl.pc = "update" /\ ~ctl.scale_changed
    /\ \E k \in 0 .. (ctl.next - 1) :
          state[k] = Ready /\ seen[k] = "visible"
    /\ \E k \in 0 .. (ctl.next - 1) :
          state[k] = Ready /\ seen[k] = "hidden"

\* the task that tile k's state names is still waiting in the queue
HandleQueued(k, ts) ==
    /\ state[k].kind = "Computing"
    /\ \E t \in ts : /\ t.tile = k /\ t.id = state[k].task_handle
                      /\ t.pc = "queued" /\ ~t.aborted

\* C21: the global fractal rectangle changes only when an update call finds
\* the scale changed; and a pass that found it changed visits every tile
\* and invalidates it, visible or not and whatever its state: the token is
\* incremented once, the task its state names is aborted, and the tile is
\* left Idle (hidden) or Computing a task spawned in this visit (visible).
C21_RectChangeInvalidatesAll ==
    [][/\ fractal_rect' # fractal_rect =>
             /\ ctl.pc = "idle" /\ ctl'.pc = "update"
             /\ ctl'.scale_changed /\ ctl'.next = 0
       /\ (VisitStep /\ ctl.scale_changed) =>
             LET k == ctl.next
             IN  /\ cancel_token'[k] = cancel_token[k] + 1
                 /\ ~HandleQueued(k, tasks')
                 /\ state'[k] = IF seen'[k] = "visible"
                                THEN Computing(spawned[k]) ELSE Idle
                 /\ seen'[k] = "visible" <=> SpawnedNow # {}
                 /\ ctl'.pc = "idle" <=> k = NumTiles - 1
                 /\ ctl'.pc = "idle" =>
                       \A j \in TileIds :
                           cancel_token'[j] = ctl.start_token[j] + 1]_vars

\* a pass that recomputed the rectangle has visited a tile that the latest
\* render had uploaded (it was Ready) and that is hidden now: the tile is
\* Idle and its token incremented
C21_Witness ==
    /\ ctl.pc = "update" /\ ctl.scale_changed
    /\ fractal_rect # ZeroRect
    /\ \E k \in 0 .. (ctl.next - 1) :
          /\ seen[k] = "hidden" /\ state[k] = Idle
          /\ cancel_token[k] = ctl.start_token[k] + 1
          /\ \E n \in 1 .. Len(writes) :
                writes[n].origin = TileAt(k).tex_rect.pos

\* C22: token discipline.  A tile's 32-bit token changes only by +1 and
\* never decreases: after an increment it is above its value before.
C22_TokenNeverDecreases ==
    counter.adds > 0 => Below(counter.old, counter.value)

\* C23: row-major layout.  With N = R/T tiles per side the tile with index k
\* has the texture-space origin ((k mod N) * T, (k div N) * T).
C23_RowMajor ==
    (grid.built /\ grid.ok) =>
        LET N == gridRes \div gridTile
        IN  \A n \in 1 .. Len(grid.tiles) :
               /\ grid.tiles[n].index = n - 1
               /\ grid.tiles[n].tex_rect.pos =
                      Vec2(((n - 1) % N) * gridTile, ((n - 1) \div N) * gridTile)

\* the exact position and size of the claim, times the texture side
ExactMapping(n) ==
    LET g == mapping.global
        t == Tiles[n].tex_rect
        r == mapping.rects[n]
    IN  /\ r.pos.x * TexSize = g.pos.x * TexSize + g.size.x * t.pos.x
        /\ r.pos.y * TexSize = g.pos.y * TexSize + g.size.y * t.pos.y
        /\ r.size.x * TexSize = g.size.x * t.size.x
        /\ r.size.y * TexSize = g.size.y * t.size.y

\* r lies inside g
Within(r, g) ==
    /\ g.pos.x <= r.pos.x /\ r.pos.x + r.size.x <= g.pos.x + g.size.x
    /\ g.pos.y <= r.pos.y /\ r.pos.y + r.size.y <= g.pos.y + g.size.y

\* C24: tile-to-fractal mapping.  Tile::fractal_rect returns the position
\* global.pos + global.size * tile.pos / R and the size global.size *
\* tile.size / R; the tiles' rectangles have pairwise disjoint interiors and
\* their union is the global rectangle (they lie inside it and their areas
\* add up to its area).
C24_TileMapping ==
    mapping.pc = "done" =>
        /\ \A n \in 1 .. NumTiles : ExactMapping(n)
        /\ \A n \in 1 .. NumTiles : Within(mapping.rects[n], mapping.global)
        /\ \A n, m \in 1 .. NumTiles :
              n # m => ~Overlap(mapping.rects[n], mapping.rects[m])
        /\ AreaSum(mapping.rects, NumTiles) =
              mapping.global.size.x * mapping.global.size.y

\* C25: the control thread never waits for a pixel computation.  A task
\* that holds a tile's lock is in its write-back step, never scanning, so
\* the lock the control thread wants is freed by the holder's next step.
C25_NoLockWhileScanning ==
    \A k \in TileIds :
        lk.holder[k].who = "task" =>
            \E t \in lk.tasks : /\ TaskId(t) = lk.holder[k]
                                 /\ t.tile = k /\ t.pc = "write"

\* the control thread is waiting for a lock that a worker holds
C25_Witness ==
    /\ lk.ctl.pc = "want"
    /\ lk.holder[lk.ctl.next].who = "task"

\* the threads of the lock study
Threads == {CtlThread} \cup {TaskId(t) : t \in lk.tasks}

\* the tile whose lock the thread is blocked on, as a set (empty: not blocked)
Wanted(th) ==
    IF th = CtlThread
    THEN {k \in TileIds : /\ lk.ctl.pc = "want" /\ k = lk.ctl.next
                          /\ lk.holder[k] # NoThread}
    ELSE {k \in TileIds : /\ k = th.tile
                          /\ \E t \in lk.tasks : TaskId(t) = th /\ MayLock(t)
                          /\ lk.holder[k] \notin {NoThread, th}}

HeldBy(th) == {k \in TileIds : lk.holder[k] = th}

\* C26: deadlock freedom on tile locks.  No thread holds more than one tile
\* lock at a time, and there is no set of threads each of which is blocked
\* on a tile lock held by a thread of the set.
C26_NoLockCycle ==
    /\ \A th \in Threads : Cardinality(HeldBy(th)) <= 1
    /\ \A S \in SUBSET Threads :
          S # {} => \E th \in S :
                       \A k \in Wanted(th) : lk.holder[k] \notin S

\* two threads hold one lock each while a third is blocked on one of them
C26_Witness ==
    \E a, b, c \in Threads :
        /\ a # b /\ b # c /\ a # c
        /\ HeldBy(a) # {} /\ HeldBy(b) # {}
        /\ Wanted(c) # {} /\ Wanted(c) \subseteq HeldBy(a)

\* every tile that is visible in the requested frame is Ready
VisibleReady ==
    \A k \in TileIds : Visible(k, prev.frame_rect) => state[k] = Ready

\* C27: convergence.  With the frame and the window size fixed, update and
\* render called for ever and every task scheduled, from some point on every
\* visible tile is Ready and stays Ready.
C27_Convergence == <>[](fractal_rect # ZeroRect /\ VisibleReady)

\* C28: no lost upload in the application loop.  A tile that holds a
\* buffer, whenever the buffer arrived, is uploaded by a later render.
C28_NoLostUpload ==
    \A k \in AppTiles : (app.tile[k] = "Ready") ~> (app.tile[k] = "Idle")

\* a buffer arrived for a tile the running upload pass has already visited,
\* after the flag was cleared
C28_Witness ==
    /\ app.pc = "upload"
    /\ ~app.has_update_tiles
    /\ \E k \in AppTiles : k < app.next /\ app.tile[k] = "Ready"

\* the part of the global rectangle that tile k depicts
CoverRect(k) ==
    TileFractalRect(TileAt(k), Vec2(TexSize, TexSize), fractal_rect)

\* twice the coordinates between lo and hi at which being covered can
\* change: the ends of the intervals in ends and the points between them
Probes(ends, lo, hi) ==
    {a + b : a, b \in ends} \cap (2 * lo) .. (2 * hi)

\* the point with the doubled coordinates x2, y2 lies in the rectangle r
PointIn(x2, y2, r) ==
    /\ 2 * r.pos.x <= x2 /\ x2 <= 2 * (r.pos.x + r.size.x)
    /\ 2 * r.pos.y <= y2 /\ y2 <= 2 * (r.pos.y + r.size.y)

\* every point of the frame f lies in the rectangle of some tile
Covered(f) ==
    LET xs == {f.pos.x, f.pos.x + f.size.x} \cup
              {CoverRect(k).pos.x : k \in TileIds} \cup
              {CoverRect(k).pos.x + CoverRect(k).size.x : k \in TileIds}
        ys == {f.pos.y, f.pos.y + f.size.y} \cup
              {CoverRect(k).pos.y : k \in TileIds} \cup
              {CoverRect(k).pos.y + CoverRect(k).size.y : k \in TileIds}
    IN  \A x2 \in Probes(xs, f.pos.x, f.pos.x + f.size.x),
           y2 \in Probes(ys, f.pos.y, f.pos.y + f.size.y) :
           \E k \in TileIds : PointIn(x2, y2, CoverRect(k))

\* C29: the visible area is covered.  After an update that recomputes the
\* global rectangle around the centre of a frame of the window's shape, the
\* global rectangle contains the frame, and every point of the frame lies in
\* the fractal rectangle of some tile.
C29_VisibleCovered ==
    (ctl.pc = "update" /\ ctl.scale_changed) =>
        /\ Within(ctl.frame_rect, fractal_rect)
        /\ Covered(ctl.frame_rect)

====
